---- MODULE Spec2Model ----
(***************************************************************************)
(* Voiceover generation with content-addressed caching and bounded         *)
(* retries: backend/modal/services/tts/elevenlabs.py.                      *)
(*                                                                         *)
(* generate_voiceover is modelled one statement group per action, each     *)
(* process p being one call of it.      The file system is the function    *)
(* `files` from the paths that exist to their contents.  The provider's    *)
(* answer to each POST, the environment variables and the arguments of     *)
(* each call are inputs.  Times are integers (one unit per character of    *)
(* the provider's alignment) and costs are counted in ten-thousandths of   *)
(* a USD, so that len(text) * 0.0003 is len(text) * 3 units.               *)
(*                                                                         *)
(* Output file names are caller-chosen names; cache file names are         *)
(* SHA-256 digests.  The two kinds of stem are kept apart: a caller that   *)
(* names its output after a digest is outside the model.                   *)
(***************************************************************************)
EXTENDS Integers, Sequences, FiniteSets, TLC

\* ------------------------------------------------------------- bounds
\* Largest value of the `retries` argument a call is given.
MaxRetries == 2

\* --------------------------------------------------------- input sets
\* The calls of generate_voiceover of one behaviour, a process each.
Procs == {1, 2}

Texts == { <<>>, <<"h", "i", " ", "u">> }
Voices == { "K80wneyktrw2rE11kA2W", "voice2" }
Dirs == { "/outputs/job1", "/outputs/job2" }
Names == { "section_1", "section_2" }

\* ------------------------------------------------------- python values
None == "None"
\* JSON null inside a decoded response body
JsonNull == [null |-> TRUE]
\* os.getenv of a variable that is not set.
Unset == "<unset>"
EmptyDict == <<>>

\* dict.get(key, default)
Get(d, k, default) == IF k \in DOMAIN d THEN d[k] ELSE default

\* Python truth value of an os.getenv result (None and "" are falsy).
Truthy(v) == v \notin {Unset, ""}

\* Python `a or b`
Or(a, b) == IF Truthy(a) THEN a ELSE b

\* ---------------------------------------------------------- credential
EnvNames == <<"ELEVENLABS_API_KEY", "elevenlabs_key", "ELEVENLABS_KEY", "ELEVEN_API_KEY">>
EnvValues == {Unset, "", "sk"}
Envs == [DOMAIN EnvNames -> EnvValues]

\* `if not api_key` tested as `if api_key is None`
MissingKeyMutant(api_key) == api_key = Unset

\* lines 58: `if not api_key`
MissingKey(api_key) == ~Truthy(api_key)

\* lines 51-56: the first non-empty of the four environment variables
ResolveApiKey(env) == Or(env[1], Or(env[2], Or(env[3], env[4])))

\* ------------------------------------------------------------ cache key
ServiceTag == "elevenlabs_timed"

\* json.dumps(data, sort_keys=True) of the three-field dict: its members in
\* key order ("service" < "text" < "voice_id").
CanonicalJson(data) ==
    << <<"service", data.service>>, <<"text", data.text>>, <<"voice_id", data.voice_id>> >>

\* hashlib.sha256(...).hexdigest(), injective on its argument.
Sha256Hex(s) == [sha256 |-> s]

\* a key that leaves the voice out of the hashed data
CacheKeyMutant(text, voice_id) ==
    Sha256Hex(CanonicalJson([text |-> text, voice_id |-> "", service |-> ServiceTag]))

\* lines 160-164
CacheKey(text, voice_id) ==
    Sha256Hex(CanonicalJson([text |-> text, voice_id |-> voice_id, service |-> ServiceTag]))

\* ----------------------------------------------------------------- cost
\* 0.0003 USD per character, in ten-thousandths of a USD.
CostPerCharacter == 3

\* a cost that charges per word instead of per character
CalculateCostMutant(text) == IF Len(text) = 0 THEN 0 ELSE CostPerCharacter

\* lines 167-170
CalculateCost(text) == Len(text) * CostPerCharacter

\* ---------------------------------------------------------------- paths
OutputPath(dir, name) == [dir |-> dir, stem |-> [name |-> name], ext |-> "mp3"]
\* Path.with_suffix
WithSuffix(path, ext) == [path EXCEPT !.ext = ext]
\* lines 65-67
CachedAudio(output_path, cache_key) == [dir |-> output_path.dir, stem |-> cache_key, ext |-> "mp3"]
CachedTiming(output_path, cache_key) ==
    [dir |-> output_path.dir, stem |-> cache_key, ext |-> "timing.json"]

Exists(fs, path) == path \in DOMAIN fs
\* write_bytes / write_text: create or replace the whole file
WriteFile(fs, path, content) ==
    [q \in DOMAIN fs \cup {path} |-> IF q = path THEN content ELSE fs[q]]

\* ----------------------------------------------------------------- json
\* A JSON document on disk: its members in order, and whether the text is
\* complete (a truncated text does not parse).
JsonDumps(d, order) == [complete |-> TRUE, members |-> [i \in DOMAIN order |-> <<order[i], d[order[i]]>>]]
JsonValid(doc) == doc.complete
JsonLoads(doc) ==
    [k \in {doc.members[i][1] : i \in DOMAIN doc.members} |->
        doc.members[CHOOSE i \in DOMAIN doc.members : doc.members[i][1] = k][2]]
\* What a crash in the middle of write_text leaves behind.
TruncatedJson == [complete |-> FALSE, members |-> << <<"text", <<>> >> >>]

TimingKeys == <<"text", "word_timings", "character_alignment">>

\* --------------------------------------------------------------- base64
\* base64.b64decode on the payloads the provider sends here.
B64Table == [s \in {"", "QQ=="} |-> IF s = "" THEN <<>> ELSE <<65>>]
\* a decoder that refuses an empty payload
B64ValidMutant(s) == s \in DOMAIN B64Table \ {""}

\* no binascii.Error: the padding is correct
B64Valid(s) == s \in DOMAIN B64Table
B64Decode(s) == B64Table[s]


\* ---------------------------------------------------- timing reconstructor
\* a list that leaves the tab out
WhitespaceMutant == {" ", "\n"}

\* line 192: the list the scan tests a character against
Whitespace == {" ", "\n", "\t"}
\* the characters str.strip() removes, among those of the model
StripSet == Whitespace \cup {"\r"}

\* a test that takes every buffer, the empty one too, for a word
HasContentMutant(text) == TRUE

\* truth value of text.strip()
HasContent(text) == \E i \in DOMAIN text : text[i] \notin StripSet

\* a word anchored at time zero whatever its first character
NewWordMutant(start, idx) ==
    [text |-> <<>>, start |-> 0, end |-> 0, char_start_index |-> idx, char_end_index |-> idx]

\* lines 183-189 and 205-211
NewWord(start, idx) ==
    [text |-> <<>>, start |-> start, end |-> 0, char_start_index |-> idx, char_end_index |-> idx]

\* lines 200-202; j is the 0-based next_char_idx
RECURSIVE SkipWhitespace(_, _)
SkipWhitespace(characters, j) ==
    IF j < Len(characters) /\ characters[j + 1] \in Whitespace
    THEN SkipWhitespace(characters, j + 1)
    ELSE j

\* lines 191-221: the loop from 0-based index i on, then the last word.
\* current_word is updated in place when a word is closed and, when no next
\* character exists, is not replaced.
RECURSIVE ScanFrom(_, _, _, _, _, _)
ScanFrom(characters, start_times, end_times, i, words, current_word) ==
    IF i >= Len(characters)
    THEN IF HasContent(current_word.text)
         THEN [raised |-> FALSE,
               words |-> Append(words, [current_word EXCEPT !.end = end_times[Len(end_times)]])]
         ELSE [raised |-> FALSE, words |-> words]
    ELSE LET char == characters[i + 1] IN
         IF char \in Whitespace
         THEN LET closing == HasContent(current_word.text)
                  indexError == closing /\ i > 0 /\ i - 1 >= Len(end_times)
                  closed == [current_word EXCEPT
                                !.end = IF i > 0 THEN end_times[i] ELSE start_times[i + 1],
                                !.char_end_index = i - 1]
                  next_char_idx == SkipWhitespace(characters, i + 1)
                  after == IF closing THEN closed ELSE current_word
              IN  IF indexError
                  THEN [raised |-> TRUE, words |-> <<>>]
                  ELSE ScanFrom(characters, start_times, end_times, i + 1,
                                IF closing THEN Append(words, closed) ELSE words,
                                IF next_char_idx < Len(characters)
                                THEN NewWord(IF next_char_idx < Len(start_times)
                                             THEN start_times[next_char_idx + 1] ELSE 0,
                                             next_char_idx)
                                ELSE after)
         ELSE ScanFrom(characters, start_times, end_times, i + 1, words,
                       [current_word EXCEPT !.text = Append(@, char), !.char_end_index = i])

\* the test of line 179 made for all three arrays together: one empty array
\* among full ones reaches the scan, which fails on it
ExtractWordTimingsMutant(characters, start_times, end_times) ==
    IF characters = <<>> /\ start_times = <<>> /\ end_times = <<>>
    THEN [raised |-> FALSE, words |-> <<>>]
    ELSE IF characters = <<>> \/ start_times = <<>> \/ end_times = <<>>
    THEN [raised |-> TRUE, words |-> <<>>]
    ELSE ScanFrom(characters, start_times, end_times, 0, <<>>, NewWord(start_times[1], 0))

\* lines 173-221; raised is an IndexError out of end_times[i-1]
ExtractWordTimings(characters, start_times, end_times) ==
    IF characters = <<>> \/ start_times = <<>> \/ end_times = <<>>
    THEN [raised |-> FALSE, words |-> <<>>]
    ELSE ScanFrom(characters, start_times, end_times, 0, <<>>, NewWord(start_times[1], 0))


\* ------------------------------------------------------------- provider
\* The alignment the provider returns for a text: one time unit a character.
Alignment(text) ==
    [characters |-> text,
     character_start_times_seconds |-> [i \in DOMAIN text |-> i - 1],
     character_end_times_seconds |-> [i \in DOMAIN text |-> i]]

\* An alignment whose end times stop after the first character.
ShortAlignment(text) ==
    [Alignment(text) EXCEPT
        !.character_end_times_seconds = IF Len(text) = 0 THEN <<>> ELSE <<1>>]

\* response.json() of a response with a success status: a complete body,
\* and bodies with the audio or the alignment absent, empty or malformed
GoodBody(text) == [audio_base64 |-> "QQ==", alignment |-> Alignment(text)]
NoAudioBody(text) == [alignment |-> Alignment(text)]
BadAudioBody(text) == [audio_base64 |-> "Q", alignment |-> Alignment(text)]
EmptyAudioBody(text) == [audio_base64 |-> "", alignment |-> Alignment(text)]
NoAlignmentBody(text) == [audio_base64 |-> "QQ=="]
EmptyAlignmentBody(text) == [audio_base64 |-> "QQ==", alignment |-> EmptyDict]
NullAlignmentBody(text) == [audio_base64 |-> "QQ==", alignment |-> JsonNull]
ShortAlignmentBody(text) == [audio_base64 |-> "QQ==", alignment |-> ShortAlignment(text)]

Bodies(text) ==
    { GoodBody(text), NoAudioBody(text), BadAudioBody(text), EmptyAudioBody(text),
      NoAlignmentBody(text), EmptyAlignmentBody(text), NullAlignmentBody(text),
      ShortAlignmentBody(text) }

\* what requests.post and raise_for_status raise
TransportErrors == {"Timeout", "HTTPError"}
\* what lines 113 raises on an absent or a malformed audio payload
AudioErrors == {"KeyError", "binascii.Error"}
\* what lines 118-122 raise on a null or a short alignment
TimingErrors == {"AttributeError", "IndexError"}

FailureClass(e) ==
    IF e \in TransportErrors THEN "transport" ELSE IF e \in AudioErrors THEN "audio" ELSE "timing"

\* lines 108-110: the outcomes of one POST
Responses(text) ==
    { [status |-> e] : e \in TransportErrors } \cup
    { [status |-> "ok", body |-> b] : b \in Bodies(text) }

\* ---------------------------------------------------------------- state
VARIABLES
    files,  \* the file system: existing path -> content
    pc,     \* where each call stands
    req,    \* the arguments of each call
    loc,    \* the local variables of each call
    ret,    \* what each call returned or raised
    obs,    \* what was observed of each call: credential, cache entry found,
            \* POSTs, failed attempts, file writes
    recon   \* a direct call of _extract_word_timings: arguments and outcome

vars == <<files, pc, req, loc, ret, obs, recon>>

NoRequest == [text |-> <<>>, output_path |-> OutputPath("", ""), voice_id |-> "", retries |-> 0]

NoLocals ==
    [api_key |-> Unset, cache_key |-> None, attempt |-> 0, last_error |-> None,
     result |-> EmptyDict, audio_bytes |-> <<>>, alignment |-> EmptyDict, word_timings |-> <<>>]

NoWrites == [output_audio |-> 0, output_timing |-> 0, cache_audio |-> 0, cache_timing |-> 0]

NoFailures == [transport |-> 0, audio |-> 0, timing |-> 0]

NoObs ==
    [credential |-> FALSE, lookup |-> "pending", calls |-> 0, last_response |-> [status |-> "none"],
     failures |-> NoFailures, writes |-> NoWrites, attempt_writes |-> NoWrites]

NoReturn == [kind |-> "none"]

\* _extract_word_timings with the given arguments, not yet called
NotCalled(characters, start_times, end_times) ==
    [characters |-> characters, start_times |-> start_times, end_times |-> end_times,
     returned |-> FALSE, raised |-> FALSE, words |-> <<>>]

NoRecon == NotCalled(<<>>, <<>>, <<>>)

\* The cache entry of a key as a request finds it.
CacheState(fs, output_path, cache_key) ==
    LET a == Exists(fs, CachedAudio(output_path, cache_key))
        t == Exists(fs, CachedTiming(output_path, cache_key))
    IN  IF a /\ t
        THEN IF JsonValid(fs[CachedTiming(output_path, cache_key)]) THEN "valid" ELSE "corrupt"
        ELSE IF a THEN "audio_only" ELSE IF t THEN "timing_only" ELSE "none"

\* What an interrupted cache write of an earlier run leaves in a directory:
\* the audio alone (line 135 done, line 136 not), or the audio with a
\* truncated timing file (line 136 cut short).
DamagedCaches(dirs, texts, voices) ==
    UNION { LET out == OutputPath(d, "section_1")
                a == WriteFile(<<>>, CachedAudio(out, CacheKey(t, v)), <<65>>)
            IN  {a, WriteFile(a, CachedTiming(out, CacheKey(t, v)), TruncatedJson)}
            : <<d, t, v>> \in dirs \X texts \X voices }

Idle ==
    /\ pc = [p \in Procs |-> "idle"]
    /\ req = [p \in Procs |-> NoRequest]
    /\ loc = [p \in Procs |-> NoLocals]
    /\ ret = [p \in Procs |-> NoReturn]
    /\ obs = [p \in Procs |-> NoObs]

Init ==
    /\ files \in {<<>>} \cup DamagedCaches(Dirs, Texts, Voices)
    /\ Idle
    /\ recon = NoRecon

\* ------------------------------------------------------------- handlers
\* an except clause that retries transport errors only
RetryableMutant(e) == e \in TransportErrors

\* line 150: `except Exception` catches whatever the attempt raised
Retryable(e) == TRUE

\* the message without the last error
ExhaustedErrorMutant(retries, last_error) ==
    [type |-> "Exception", attempts |-> retries, cause |-> None]

\* line 157
ExhaustedError(retries, last_error) ==
    [type |-> "Exception", attempts |-> retries, cause |-> last_error]

\* lines 58-61
ConfigurationError == [type |-> "ValueError", attempts |-> 0, cause |-> None]

Raised(error) == [kind |-> "raise", error |-> error]
Returned(value) == [kind |-> "return", value |-> value]

\* the locals that are live between two attempts and after the call
Live(l) == [NoLocals EXCEPT !.cache_key = l.cache_key, !.api_key = l.api_key,
                            !.attempt = l.attempt, !.last_error = l.last_error]
Dead(l) == [NoLocals EXCEPT !.cache_key = l.cache_key]

\* lines 150-155: an exception e inside the try block of an attempt; o is
\* the record of what was observed up to the exception
Except(p, e, o) ==
    /\ obs' = [o EXCEPT ![p].failures[FailureClass(e)] = @ + 1]
    /\ IF Retryable(e)
       THEN /\ loc' = [loc EXCEPT ![p] = [Live(loc[p]) EXCEPT !.attempt = @ + 1, !.last_error = e]]
            /\ pc' = [pc EXCEPT ![p] = "loop"]
            /\ ret' = ret
       ELSE /\ loc' = [loc EXCEPT ![p] = Dead(loc[p])]
            /\ pc' = [pc EXCEPT ![p] = "done"]
            /\ ret' = [ret EXCEPT ![p] = Raised([type |-> e, attempts |-> loc[p].attempt + 1, cause |-> e])]

\* the bookkeeping of one file write
Wrote(p, which) ==
    [obs EXCEPT ![p].writes[which] = @ + 1, ![p].attempt_writes[which] = @ + 1]

\* -------------------------------------------------------------- actions
\* lines 47-67: the call, the credential, the cache key; `inputs` holds the
\* sets the arguments and the environment are drawn from
Call(p, inputs) ==
    /\ pc[p] = "idle"
    /\ \E text \in inputs.texts, dir \in inputs.dirs, name \in inputs.names,
          voice_id \in inputs.voices, retries \in inputs.retries, env \in inputs.envs :
          LET api_key == ResolveApiKey(env) IN
          /\ req' = [req EXCEPT ![p] = [text |-> text, output_path |-> OutputPath(dir, name),
                                        voice_id |-> voice_id, retries |-> retries]]
          /\ obs' = [obs EXCEPT ![p] =
                        [NoObs EXCEPT !.credential = \E i \in DOMAIN env : env[i] \notin {Unset, ""}]]
          /\ IF MissingKey(api_key)
             THEN /\ pc' = [pc EXCEPT ![p] = "done"]
                  /\ ret' = [ret EXCEPT ![p] = Raised(ConfigurationError)]
                  /\ loc' = [loc EXCEPT ![p] = NoLocals]
             ELSE /\ pc' = [pc EXCEPT ![p] = "cache_check"]
                  /\ ret' = [ret EXCEPT ![p] = NoReturn]
                  /\ loc' = [loc EXCEPT ![p] = [NoLocals EXCEPT !.api_key = api_key,
                                                                !.cache_key = CacheKey(text, voice_id)]]
    /\ UNCHANGED <<files, recon>>

\* a lookup that lets the read error out
CacheLookupMutant(fs, output_path, cache_key, text) ==
    LET cached_audio == CachedAudio(output_path, cache_key)
        cached_timing == CachedTiming(output_path, cache_key)
    IN  IF Exists(fs, cached_audio) /\ Exists(fs, cached_timing)
        THEN IF JsonValid(fs[cached_timing])
             THEN LET timing_data == JsonLoads(fs[cached_timing]) IN
                  [hit |-> TRUE, error |-> None,
                   value |-> [audio_path |-> cached_audio,
                              word_timings |-> Get(timing_data, "word_timings", <<>>),
                              character_alignment |-> Get(timing_data, "character_alignment", EmptyDict),
                              cost |-> CalculateCost(text),
                              character_count |-> Len(text),
                              from_cache |-> TRUE]]
             ELSE [hit |-> FALSE, error |-> "JSONDecodeError"]
        ELSE [hit |-> FALSE, error |-> None]

\* lines 69-83: the cached result, or a miss; a read error is swallowed
CacheLookup(fs, output_path, cache_key, text) ==
    LET cached_audio == CachedAudio(output_path, cache_key)
        cached_timing == CachedTiming(output_path, cache_key)
    IN  IF Exists(fs, cached_audio) /\ Exists(fs, cached_timing)
        THEN IF JsonValid(fs[cached_timing])
             THEN LET timing_data == JsonLoads(fs[cached_timing]) IN
                  [hit |-> TRUE, error |-> None,
                   value |-> [audio_path |-> cached_audio,
                              word_timings |-> Get(timing_data, "word_timings", <<>>),
                              character_alignment |-> Get(timing_data, "character_alignment", EmptyDict),
                              cost |-> CalculateCost(text),
                              character_count |-> Len(text),
                              from_cache |-> TRUE]]
             ELSE [hit |-> FALSE, error |-> None]
        ELSE [hit |-> FALSE, error |-> None]

\* lines 69-86
CacheCheck(p) ==
    /\ pc[p] = "cache_check"
    /\ LET found == CacheLookup(files, req[p].output_path, loc[p].cache_key, req[p].text) IN
       /\ obs' = [obs EXCEPT ![p].lookup = CacheState(files, req[p].output_path, loc[p].cache_key)]
       /\ IF found.hit
          THEN /\ ret' = [ret EXCEPT ![p] = Returned(found.value)]
               /\ pc' = [pc EXCEPT ![p] = "done"]
               /\ loc' = [loc EXCEPT ![p] = Dead(loc[p])]
          ELSE IF found.error # None
          THEN /\ ret' = [ret EXCEPT ![p] = Raised([type |-> found.error, attempts |-> 0, cause |-> None])]
               /\ pc' = [pc EXCEPT ![p] = "done"]
               /\ loc' = [loc EXCEPT ![p] = Dead(loc[p])]
          ELSE /\ ret' = ret
               /\ pc' = [pc EXCEPT ![p] = "loop"]
               /\ loc' = loc
    /\ UNCHANGED <<files, req, recon>>

\* lines 87-110: one POST and its answer, drawn from the set `answers`
Post(p, answers) ==
    /\ pc[p] = "loop"
    /\ loc[p].attempt < req[p].retries
    /\ \E response \in answers :
          LET o == [obs EXCEPT ![p].calls = @ + 1, ![p].attempt_writes = NoWrites,
                               ![p].last_response = response] IN
          IF response.status = "ok"
          THEN /\ loc' = [loc EXCEPT ![p].result = response.body]
               /\ pc' = [pc EXCEPT ![p] = "decode"]
               /\ obs' = o
               /\ ret' = ret
          ELSE Except(p, response.status, o)
    /\ UNCHANGED <<files, req, recon>>

\* a loop that has run out and does not raise
ExhaustedMutant(p) ==
    /\ pc[p] = "loop"
    /\ loc[p].attempt >= req[p].retries
    /\ UNCHANGED vars

\* line 157: the loop ran out
Exhausted(p) ==
    /\ pc[p] = "loop"
    /\ loc[p].attempt >= req[p].retries
    /\ ret' = [ret EXCEPT ![p] = Raised(ExhaustedError(req[p].retries, loc[p].last_error))]
    /\ pc' = [pc EXCEPT ![p] = "done"]
    /\ loc' = [loc EXCEPT ![p] = Dead(loc[p])]
    /\ UNCHANGED <<files, req, obs, recon>>

\* lines 113-115: decode the audio and save it at output_path
Decode(p) ==
    /\ pc[p] = "decode"
    /\ LET result == loc[p].result IN
       IF "audio_base64" \notin DOMAIN result
       THEN Except(p, "KeyError", obs) /\ files' = files
       ELSE IF ~B64Valid(result.audio_base64)
       THEN Except(p, "binascii.Error", obs) /\ files' = files
       ELSE LET audio_bytes == B64Decode(result.audio_base64) IN
            /\ files' = WriteFile(files, req[p].output_path, audio_bytes)
            /\ loc' = [loc EXCEPT ![p].audio_bytes = audio_bytes]
            /\ pc' = [pc EXCEPT ![p] = "extract"]
            /\ obs' = Wrote(p, "output_audio")
            /\ ret' = ret
    /\ UNCHANGED <<req, recon>>

\* timing data built before the word timings are extracted
TimingDataMutant(text, word_timings, alignment) ==
    [text |-> text, word_timings |-> <<>>, character_alignment |-> alignment]

\* lines 125-129
TimingData(text, word_timings, alignment) ==
    [text |-> text, word_timings |-> word_timings, character_alignment |-> alignment]

\* lines 118-131: the word timings and the sibling timing file
ExtractTiming(p) ==
    /\ pc[p] = "extract"
    /\ LET alignment == Get(loc[p].result, "alignment", EmptyDict) IN
       IF alignment = JsonNull
       THEN Except(p, "AttributeError", obs) /\ files' = files
       ELSE LET characters == Get(alignment, "characters", <<>>)
                char_start_times == Get(alignment, "character_start_times_seconds", <<>>)
                char_end_times == Get(alignment, "character_end_times_seconds", <<>>)
                extracted == ExtractWordTimings(characters, char_start_times, char_end_times)
            IN  IF extracted.raised
                THEN Except(p, "IndexError", obs) /\ files' = files
                ELSE /\ files' = WriteFile(files, WithSuffix(req[p].output_path, "timing.json"),
                                           JsonDumps(TimingData(req[p].text, extracted.words, alignment),
                                                     TimingKeys))
                     /\ loc' = [loc EXCEPT ![p].alignment = alignment,
                                           ![p].word_timings = extracted.words,
                                           ![p].result = EmptyDict]
                     /\ pc' = [pc EXCEPT ![p] = "cache_probe"]
                     /\ obs' = Wrote(p, "output_timing")
                     /\ ret' = ret
    /\ UNCHANGED <<req, recon>>

\* a cache copy written whatever the cache holds
ShouldWriteCacheMutant(fs, cached_audio) == TRUE

\* the test of line 134 inverted
ShouldWriteCacheInverted(fs, cached_audio) == Exists(fs, cached_audio)

\* line 134: `if not cached_audio.exists()`
ShouldWriteCache(fs, cached_audio) == ~Exists(fs, cached_audio)

\* line 134
CacheProbe(p) ==
    /\ pc[p] = "cache_probe"
    /\ pc' = [pc EXCEPT ![p] =
                IF ShouldWriteCache(files, CachedAudio(req[p].output_path, loc[p].cache_key))
                THEN "cache_audio" ELSE "return"]
    /\ UNCHANGED <<files, req, loc, ret, obs, recon>>

\* line 135
CacheWriteAudio(p) ==
    /\ pc[p] = "cache_audio"
    /\ files' = WriteFile(files, CachedAudio(req[p].output_path, loc[p].cache_key), loc[p].audio_bytes)
    /\ obs' = Wrote(p, "cache_audio")
    /\ pc' = [pc EXCEPT ![p] = "cache_timing"]
    /\ UNCHANGED <<req, loc, ret, recon>>

\* line 136
CacheWriteTiming(p) ==
    /\ pc[p] = "cache_timing"
    /\ files' = WriteFile(files, CachedTiming(req[p].output_path, loc[p].cache_key),
                          JsonDumps(TimingData(req[p].text, loc[p].word_timings, loc[p].alignment),
                                    TimingKeys))
    /\ obs' = Wrote(p, "cache_timing")
    /\ pc' = [pc EXCEPT ![p] = "return"]
    /\ UNCHANGED <<req, loc, ret, recon>>

\* a fresh result flagged as a cached one
FreshResultMutant(output_path, word_timings, alignment, text) ==
    [audio_path |-> output_path,
     word_timings |-> word_timings,
     character_alignment |-> alignment,
     cost |-> CalculateCost(text),
     character_count |-> Len(text),
     from_cache |-> TRUE]

\* lines 141-148
FreshResult(output_path, word_timings, alignment, text) ==
    [audio_path |-> output_path,
     word_timings |-> word_timings,
     character_alignment |-> alignment,
     cost |-> CalculateCost(text),
     character_count |-> Len(text),
     from_cache |-> FALSE]

\* lines 138-148
Return(p) ==
    /\ pc[p] = "return"
    /\ ret' = [ret EXCEPT ![p] = Returned(FreshResult(req[p].output_path, loc[p].word_timings,
                                                      loc[p].alignment, req[p].text))]
    /\ loc' = [loc EXCEPT ![p] = Dead(loc[p])]
    /\ pc' = [pc EXCEPT ![p] = "done"]
    /\ UNCHANGED <<files, req, obs, recon>>

\* -------------------------------------------------------- specifications
\* One call, with every argument, environment and provider answer of the
\* model, from an empty or a damaged cache.
AnyCall ==
    [texts |-> Texts, dirs |-> Dirs, names |-> Names, voices |-> Voices,
     retries |-> 0..MaxRetries, envs |-> Envs]

Next ==
    \/ Call(1, AnyCall)
    \/ CacheCheck(1)
    \/ Post(1, Responses(req[1].text))
    \/ Exhausted(1)
    \/ Decode(1)
    \/ ExtractTiming(1)
    \/ CacheProbe(1)
    \/ CacheWriteAudio(1)
    \/ CacheWriteTiming(1)
    \/ Return(1)

Spec == Init /\ [][Next]_vars

\* Every statement of a call is executed in the end: the POST has a timeout
\* (line 108) and nothing else waits.
SpecFair == Spec /\ WF_vars(Next)


\* Two calls, one after the other.  The first call is for the default voice
\* and writes section_1 into the first directory with the largest retry
\* count and a credential; the second call is any call.
FirstDir == "/outputs/job1"
DefaultVoice == "K80wneyktrw2rE11kA2W"
KeyedEnv == [i \in DOMAIN EnvNames |-> IF i = 1 THEN "sk" ELSE Unset]
SomeEnvs ==
    { KeyedEnv,
      [i \in DOMAIN EnvNames |-> Unset],
      [i \in DOMAIN EnvNames |-> ""],
      [i \in DOMAIN EnvNames |-> IF i = 4 THEN "sk" ELSE IF i = 1 THEN "" ELSE Unset] }

FirstCall ==
    [texts |-> Texts, dirs |-> {FirstDir}, names |-> {"section_1"}, voices |-> {DefaultVoice},
     retries |-> {MaxRetries}, envs |-> {KeyedEnv}]

SecondCall ==
    [texts |-> Texts, dirs |-> Dirs, names |-> Names, voices |-> Voices,
     retries |-> 0..MaxRetries, envs |-> SomeEnvs]

\* the answers of the provider in the two-call specification
SeqResponses(text) ==
    { [status |-> "Timeout"] } \cup
    { [status |-> "ok", body |-> b] :
        b \in {GoodBody(text), EmptyAudioBody(text), NoAlignmentBody(text), NullAlignmentBody(text)} }

InitSeq ==
    /\ files \in {<<>>} \cup DamagedCaches({FirstDir}, Texts, {DefaultVoice})
    /\ Idle
    /\ recon = NoRecon

Steps(p, answers) ==
    \/ CacheCheck(p)
    \/ Post(p, answers)
    \/ Exhausted(p)
    \/ Decode(p)
    \/ ExtractTiming(p)
    \/ CacheProbe(p)
    \/ CacheWriteAudio(p)
    \/ CacheWriteTiming(p)
    \/ Return(p)

NextSeq ==
    \/ Call(1, FirstCall)
    \/ Steps(1, SeqResponses(req[1].text))
    \/ pc[1] = "done" /\ Call(2, SecondCall)
    \/ Steps(2, SeqResponses(req[2].text))

SpecSeq == InitSeq /\ [][NextSeq]_vars


\* The reconstructor called directly on an alignment, and a synthesis of a
\* short text that the provider answers with that alignment.
MaxLen == 4
MaxSpoken == 1

\* a letter, a carriage return, a space, a newline, a tab
Chars == {"a", "\r", " ", "\n", "\t"}

\* Character i of a well-formed alignment starts at i - 1 and lasts one time
\* unit or none.
WellFormed(characters, lasts) ==
    NotCalled(characters, [i \in DOMAIN characters |-> i - 1],
              [i \in DOMAIN characters |-> i - 1 + lasts[i]])

\* Arrays of unequal lengths, the empty ones among them.
Ragged(characters, a, b) ==
    NotCalled(characters, [i \in 1..a |-> i - 1], [i \in 1..b |-> i])

HiThere == <<"h", "i", " ", "t", "h", "e", "r", "e">>

HiThereCall ==
    NotCalled(HiThere, Alignment(HiThere).character_start_times_seconds,
              Alignment(HiThere).character_end_times_seconds)

InitWords ==
    /\ files = <<>>
    /\ Idle
    /\ \/ \E n \in 0..MaxLen : \E characters \in [1..n -> Chars], lasts \in [1..n -> {0, 1}] :
             recon = WellFormed(characters, lasts)
       \/ \E n, a, b \in 0..MaxLen : \E characters \in [1..n -> {"a", " "}] :
             recon = Ragged(characters, a, b)
       \/ recon = HiThereCall

\* lines 173-221, called once
Reconstruct ==
    /\ ~recon.returned
    /\ LET r == ExtractWordTimings(recon.characters, recon.start_times, recon.end_times) IN
       recon' = [recon EXCEPT !.returned = TRUE, !.raised = r.raised, !.words = r.words]
    /\ UNCHANGED <<files, pc, req, loc, ret, obs>>

SpokenCall ==
    [texts |-> {recon.characters}, dirs |-> {FirstDir}, names |-> {"section_1"},
     voices |-> {DefaultVoice}, retries |-> {1}, envs |-> {KeyedEnv}]

\* the provider answers with the alignment, or not at all
SpokenResponses ==
    { [status |-> "Timeout"],
      [status |-> "ok",
       body |-> [audio_base64 |-> "QQ==",
                 alignment |-> [characters |-> recon.characters,
                                character_start_times_seconds |-> recon.start_times,
                                character_end_times_seconds |-> recon.end_times]]] }

NextWords ==
    \/ Reconstruct
    \/ Len(recon.characters) <= MaxSpoken /\ Call(1, SpokenCall)
    \/ Steps(1, SpokenResponses)

SpecWords == InitWords /\ [][NextWords]_vars


\* Two duplicate calls at the same time, their statements interleaved: the
\* same text, voice and directory, any output name, an empty cache.
SpokenText == <<"h", "i", " ", "u">>

DuplicateCall ==
    [texts |-> {SpokenText}, dirs |-> {FirstDir}, names |-> Names, voices |-> {DefaultVoice},
     retries |-> {MaxRetries}, envs |-> {KeyedEnv}]

InitConc ==
    /\ files = <<>>
    /\ Idle
    /\ recon = NoRecon

NextConc ==
    \/ Call(1, DuplicateCall)
    \/ Call(2, DuplicateCall)
    \/ Steps(1, SeqResponses(req[1].text))
    \/ Steps(2, SeqResponses(req[2].text))

SpecConc == InitConc /\ [][NextConc]_vars


\* ----------------------------------------------------------- properties
Done(p) == pc[p] = "done"
\* the call had a credential and found no usable cache entry
Missed(p) == obs[p].credential /\ obs[p].lookup \notin {"pending", "valid"}
AllOnce == [output_audio |-> 1, output_timing |-> 1, cache_audio |-> 1, cache_timing |-> 1]
FreshSuccess(p) == Done(p) /\ ret[p].kind = "return" /\ ~ret[p].value.from_cache
CacheHit(p) == Done(p) /\ ret[p].kind = "return" /\ ret[p].value.from_cache
SameTextVoice(p, q) == req[p].text = req[q].text /\ req[p].voice_id = req[q].voice_id
SameTextVoiceDir(p, q) == SameTextVoice(p, q) /\ req[p].output_path.dir = req[q].output_path.dir
IsCachePath(path) == "sha256" \in DOMAIN path.stem
LastOk(p) == obs[p].last_response.status = "ok"
LastBody(p) == obs[p].last_response.body

\* C1: with retries = N >= 1, a credential and a cache miss, when every POST
\* fails at transport level the call makes exactly N POSTs and then raises
\* the exhausted-attempts error, which reports N attempts and carries the
\* cause of the N-th failure; it returns no result.
C1_RetryExhaustion ==
    \A p \in Procs :
        (Done(p) /\ Missed(p) /\ req[p].retries >= 1
                 /\ obs[p].failures.transport = obs[p].calls)
        => /\ obs[p].calls = req[p].retries
           /\ ret[p] = Raised([type |-> "Exception", attempts |-> req[p].retries,
                               cause |-> obs[p].last_response.status])

C1_Witness ==
    /\ Done(1) /\ Missed(1) /\ req[1].retries = MaxRetries
    /\ obs[1].failures.transport = MaxRetries /\ obs[1].calls = MaxRetries
    /\ ret[1].kind = "raise" /\ ret[1].error.cause = "HTTPError"

\* C3 as claimed: after an attempt failed on an absent or malformed audio
\* payload, the call makes no further POST.
C3_NoPostAfterDecodeFailure ==
    [][\A p \in Procs :
          (pc[p] = "loop" /\ loc[p].last_error \in AudioErrors) => obs'[p].calls = obs[p].calls]_vars

\* C3 amended: an attempt that fails on an absent or malformed audio payload
\* is retried like any failed attempt: a call in which it happened raises only
\* the exhausted-attempts error, after exactly `retries` POSTs, or returns.
C3_DecodeFailureRetried ==
    \A p \in Procs :
        (Done(p) /\ obs[p].failures.audio >= 1)
        => \/ ret[p].kind = "return"
           \/ /\ ret[p].kind = "raise"
              /\ ret[p].error.type = "Exception"
              /\ ret[p].error.attempts = req[p].retries
              /\ obs[p].calls = req[p].retries

C3_Witness ==
    /\ Done(1) /\ req[1].retries = MaxRetries
    /\ obs[1].failures.audio = MaxRetries /\ obs[1].calls = MaxRetries
    /\ ret[1].kind = "raise" /\ ret[1].error.cause \in AudioErrors

\* a body with the alignment missing or empty, or with an empty audio payload
DefectiveBody(body) ==
    \/ "alignment" \notin DOMAIN body
    \/ body.alignment = EmptyDict
    \/ "audio_base64" \in DOMAIN body /\ body.audio_base64 = ""

\* C4 as claimed: a call whose last POST got a success response with the
\* alignment missing or empty, or the audio payload empty, raises, and
\* writes no cache file for that response.
C4_DefectivePayloadFails ==
    \A p \in Procs :
        (Done(p) /\ LastOk(p) /\ DefectiveBody(LastBody(p)))
        => /\ ret[p].kind = "raise"
           /\ obs[p].attempt_writes.cache_audio = 0
           /\ obs[p].attempt_writes.cache_timing = 0

\* C4 amended: such a response is accepted.  The call returns a result with
\* from_cache false, whose alignment is the one received ({} when missing)
\* and whose word_timings are empty when the alignment is missing or empty;
\* the audio file holds the decoded payload (no byte when it is empty); and
\* when the key had no cache file, the cache entry is written from it.
C4_DefectivePayloadAccepted ==
    \A p \in Procs :
        (Done(p) /\ LastOk(p) /\ DefectiveBody(LastBody(p)))
        => LET body == LastBody(p)
               cached_audio == CachedAudio(req[p].output_path, loc[p].cache_key)
           IN  /\ ret[p].kind = "return"
               /\ ~ret[p].value.from_cache
               /\ ret[p].value.audio_path = req[p].output_path
               /\ ret[p].value.character_alignment = Get(body, "alignment", EmptyDict)
               /\ Get(body, "alignment", EmptyDict) = EmptyDict => ret[p].value.word_timings = <<>>
               /\ files[req[p].output_path] = B64Decode(body.audio_base64)
               /\ obs[p].lookup = "none"
                  => /\ obs[p].attempt_writes.cache_audio = 1
                     /\ obs[p].attempt_writes.cache_timing = 1
                     /\ files[cached_audio] = B64Decode(body.audio_base64)
                     /\ CacheState(files, req[p].output_path, loc[p].cache_key) = "valid"

C4_Witness ==
    /\ Done(1) /\ LastOk(1) /\ "alignment" \notin DOMAIN LastBody(1)
    /\ req[1].text # <<>> /\ obs[1].lookup = "none"
    /\ ret[1].kind = "return" /\ ret[1].value.word_timings = <<>>

\* C5: a call made when no credential source holds a non-empty value ends at
\* once with the configuration error, which is not the exhausted-attempts
\* error; it makes no POST, whatever `retries` is, and writes no file.
C5_MissingCredential ==
    \A p \in Procs :
        (pc[p] # "idle" /\ ~obs[p].credential)
        => /\ Done(p)
           /\ ret[p] = Raised(ConfigurationError)
           /\ ret[p].error.type # ExhaustedError(req[p].retries, None).type
           /\ obs[p].calls = 0
           /\ obs[p].writes = NoWrites
           /\ files \in {<<>>} \cup DamagedCaches(Dirs, Texts, Voices)

C5_Witness ==
    /\ Done(1) /\ ~obs[1].credential /\ req[1].retries = MaxRetries
    /\ ret[1].kind = "raise" /\ files # <<>>

\* the outcome of a call that went through the retry loop: the exhausted-
\* attempts error after `retries` POSTs, or the result built from the last
\* response
MissOutcome(p) ==
    \/ /\ ret[p].kind = "raise"
       /\ ret[p].error.type = "Exception"
       /\ ret[p].error.attempts = req[p].retries
       /\ obs[p].calls = req[p].retries
    \/ /\ ret[p].kind = "return"
       /\ obs[p].calls >= 1
       /\ LastOk(p)
       /\ ~ret[p].value.from_cache
       /\ ret[p].value.audio_path = req[p].output_path
       /\ ret[p].value.character_alignment = Get(LastBody(p), "alignment", EmptyDict)

\* C6: a call that finds a cache entry whose timing JSON does not parse does
\* not fail on it: it goes through the retry loop, and ends as a call that
\* found no cache entry ends.
C6_CorruptCacheIsMiss ==
    \A p \in Procs :
        /\ (obs[p].lookup = "corrupt" /\ ~Done(p)) => pc[p] \notin {"idle", "cache_check"}
        /\ (Done(p) /\ obs[p].lookup \in {"corrupt", "none"}) => MissOutcome(p)

C6_Witness ==
    /\ Done(1) /\ obs[1].lookup = "corrupt" /\ ret[1].kind = "return"
    /\ req[1].text # <<>> /\ Len(ret[1].value.word_timings) >= 1


\* C2 as claimed: a synthesis that succeeds after any cache miss has written
\* each of the four files exactly once, and the next call with the same
\* text, voice and directory (and a credential) is served from the cache
\* without a POST.
C2_AnyMissThenHit ==
    /\ \A p \in Procs : (FreshSuccess(p) /\ Missed(p)) => obs[p].writes = AllOnce
    /\ (FreshSuccess(1) /\ Missed(1) /\ Done(2) /\ obs[2].credential /\ SameTextVoiceDir(1, 2))
       => CacheHit(2) /\ obs[2].calls = 0

\* C2 amended: a synthesis that succeeds after finding no cache file at its
\* key writes the two cache files exactly once each and, in its successful
\* attempt, the audio file and the timing file exactly once each; the next
\* call with the same text, voice and directory, made with a credential, is
\* served from the cache without a POST and without a write.
C2_CleanMissThenHit ==
    /\ \A p \in Procs :
          (FreshSuccess(p) /\ obs[p].lookup = "none")
          => /\ obs[p].attempt_writes = AllOnce
             /\ obs[p].writes.cache_audio = 1
             /\ obs[p].writes.cache_timing = 1
    /\ (FreshSuccess(1) /\ obs[1].lookup = "none" /\ Done(2) /\ obs[2].credential
                        /\ SameTextVoiceDir(1, 2))
       => CacheHit(2) /\ obs[2].calls = 0 /\ obs[2].writes = NoWrites

C2_Witness ==
    /\ FreshSuccess(1) /\ obs[1].lookup = "none" /\ obs[1].calls = MaxRetries
    /\ SameTextVoiceDir(1, 2) /\ req[2].output_path # req[1].output_path
    /\ CacheHit(2) /\ obs[2].calls = 0 /\ req[2].retries = MaxRetries

\* C7: a cache file that exists keeps its content in every step of every
\* call, and a call writes cache files only when it found none at its key.
C7_FirstWriterWins ==
    [][/\ \A path \in DOMAIN files :
             IsCachePath(path) => path \in DOMAIN files' /\ files'[path] = files[path]
       /\ \A p \in Procs :
             obs'[p].writes.cache_audio + obs'[p].writes.cache_timing > 0
             => obs'[p].lookup = "none"]_vars

\* a later call synthesised an empty audio while the cache of its key held
\* the audio of an earlier writer, and the cache still holds that audio
C7_Witness ==
    /\ FreshSuccess(2) /\ obs[2].lookup \in {"audio_only", "corrupt"}
    /\ LastBody(2).audio_base64 = ""
    /\ files[CachedAudio(req[2].output_path, loc[2].cache_key)] = <<65>>

\* C8: the word timings and the alignment a cache hit returns are those of
\* the result returned by the synthesis that wrote the cache entry.
C8_RoundTrip ==
    (FreshSuccess(1) /\ obs[1].writes.cache_timing = 1 /\ CacheHit(2) /\ SameTextVoiceDir(1, 2))
    => /\ ret[2].value.word_timings = ret[1].value.word_timings
       /\ ret[2].value.character_alignment = ret[1].value.character_alignment

C8_Witness ==
    /\ FreshSuccess(1) /\ obs[1].writes.cache_timing = 1 /\ CacheHit(2) /\ SameTextVoiceDir(1, 2)
    /\ Len(ret[2].value.word_timings) = 2
    /\ ret[2].value.character_alignment = Alignment(req[1].text)

\* C9: every result has character_count = len(text) and cost = len(text)
\* times 3 ten-thousandths of a USD, on the cache-hit path and on the
\* synthesis path, whatever the provider answered and the cache holds.
C9_CostLinear ==
    \A p \in Procs :
        (Done(p) /\ ret[p].kind = "return")
        => /\ ret[p].value.character_count = Len(req[p].text)
           /\ ret[p].value.cost = Len(req[p].text) * 3

C9_Witness ==
    /\ FreshSuccess(1) /\ CacheHit(2) /\ req[1].text # <<>> /\ SameTextVoiceDir(1, 2)
    /\ ret[1].value.cost = 12 /\ ret[2].value.cost = 12
    /\ ret[1].value.character_alignment = EmptyDict

\* the call has computed its cache key
KeyComputed(p) == pc[p] # "idle" /\ obs[p].credential

\* C10: two calls have the same cache key exactly when they have the same
\* text and the same voice, whatever their directory, file name, retry
\* count, order and the cache they find.
C10_KeyOfTextAndVoice ==
    \A p, q \in Procs :
        (KeyComputed(p) /\ KeyComputed(q))
        => (SameTextVoice(p, q) <=> loc[p].cache_key = loc[q].cache_key)

C10_Witness ==
    /\ KeyComputed(1) /\ KeyComputed(2) /\ Done(2) /\ SameTextVoice(1, 2)
    /\ req[1].output_path.dir # req[2].output_path.dir
    /\ req[1].output_path.stem # req[2].output_path.stem
    /\ req[1].retries # req[2].retries
    /\ loc[1].cache_key = loc[2].cache_key


\* -------------------------------------------- properties of word timings
WordTiming(text, start, end, first, last) ==
    [text |-> text, start |-> start, end |-> end,
     char_start_index |-> first, char_end_index |-> last]

Reconstructed == recon.returned /\ ~recon.raised
OfHiThere == [recon EXCEPT !.returned = FALSE, !.raised = FALSE, !.words = <<>>] = HiThereCall

\* C11 as stated: the reconstruction of "hi there" with start times 0..7 and
\* end times 1..8 is the word "hi" from 0 to 2 over characters 0..1 and the
\* word "there" starting at 4 and ending at 8 over characters 3..7
C11_ThereStartsAtFour ==
    recon.returned /\ OfHiThere =>
        /\ ~recon.raised
        /\ recon.words = << WordTiming(<<"h", "i">>, 0, 2, 0, 1),
                            WordTiming(<<"t", "h", "e", "r", "e">>, 4, 8, 3, 7) >>

\* C11 amended: the reconstruction of "hi there" with start times 0..7 and
\* end times 1..8 is exactly the word "hi" from 0 to 2 over characters 0..1
\* and the word "there" from 3, the start time of its first character, to 8
\* over characters 3..7
C11_HiThereWords ==
    recon.returned /\ OfHiThere =>
        /\ ~recon.raised
        /\ recon.words = << WordTiming(<<"h", "i">>, 0, 2, 0, 1),
                            WordTiming(<<"t", "h", "e", "r", "e">>, 3, 8, 3, 7) >>

C11_Witness == Reconstructed /\ OfHiThere /\ Len(recon.words) = 2

\* three arrays of equal length, each character's start <= its end, times
\* non-decreasing along the sequence
WellFormedAlignment ==
    LET c == recon.characters  s == recon.start_times  e == recon.end_times IN
    /\ Len(c) = Len(s) /\ Len(s) = Len(e)
    /\ \A i \in DOMAIN c : s[i] <= e[i]
    /\ \A i \in DOMAIN c : i < Len(c) => e[i] <= s[i + 1]

\* the whitespace characters: space, newline, tab
Blank == {" ", "\n", "\t"}

EndsWithWhitespace ==
    recon.characters # <<>> /\ recon.characters[Len(recon.characters)] \in Blank

\* 1-based positions of the characters that are not whitespace
Inked == { i \in DOMAIN recon.characters : recon.characters[i] \notin Blank }
\* the maximal runs of such characters, as <<first, last>>
Runs ==
    { <<a, b>> \in Inked \X Inked :
        /\ a <= b
        /\ \A i \in a..b : i \in Inked
        /\ a - 1 \notin Inked
        /\ b + 1 \notin Inked }
RunText(run) == SubSeq(recon.characters, run[1], run[2])
\* the runs with a character that str.strip() keeps
WordRuns == { run \in Runs : \E i \in run[1]..run[2] : recon.characters[i] # "\r" }
LastRun(runs) == CHOOSE run \in runs : \A other \in runs : other[2] <= run[2]
\* the entries of the result that begin at the first character of a run
EntriesOf(run) == { j \in DOMAIN recon.words : recon.words[j].char_start_index = run[1] - 1 }

\* C15 as stated: when the characters end with whitespace, the word before
\* that whitespace is emitted exactly once, as the last entry, with the end
\* time and the position of its own last character
C15_TrailingWhitespaceOnce ==
    recon.returned /\ WellFormedAlignment /\ EndsWithWhitespace /\ WordRuns # {} =>
        /\ ~recon.raised
        /\ LET run == LastRun(WordRuns) IN
           /\ Cardinality(EntriesOf(run)) = 1
           /\ \A j \in EntriesOf(run) :
                 /\ j = Len(recon.words)
                 /\ recon.words[j].end = recon.end_times[run[2]]
                 /\ recon.words[j].char_end_index = run[2] - 1

\* each entry is well-formed and ends, in time and in character positions,
\* before the next begins
Ordered(words) ==
    /\ \A j \in DOMAIN words :
          /\ words[j].start <= words[j].end
          /\ words[j].char_start_index <= words[j].char_end_index
    /\ \A j \in DOMAIN words : j < Len(words) =>
          /\ words[j].start <= words[j + 1].start
          /\ words[j].end <= words[j + 1].start
          /\ words[j].char_end_index < words[j + 1].char_start_index

\* C12 as stated: for every well-formed alignment the entries returned have
\* start <= end and char_start_index <= char_end_index, their starts are
\* non-decreasing, and each ends before the next begins
C12_WordsOrdered ==
    recon.returned /\ WellFormedAlignment => ~recon.raised /\ Ordered(recon.words)

\* the characters are letters, spaces, newlines and tabs
LettersAndBlanks == \A i \in DOMAIN recon.characters : recon.characters[i] # "\r"

\* C13: for characters over letters, space, newline and tab, with any
\* leading, trailing or repeated whitespace, no entry returned has an empty
\* text and no text holds a space, a newline or a tab
C13_NoEmptyWord ==
    recon.returned /\ LettersAndBlanks =>
        \A j \in DOMAIN recon.words :
            /\ recon.words[j].text # <<>>
            /\ \A k \in DOMAIN recon.words[j].text : recon.words[j].text[k] \notin Blank

\* whitespace that leads, trails and repeats around a word
C13_Witness ==
    /\ Reconstructed /\ LettersAndBlanks
    /\ Len(recon.characters) = 4
    /\ recon.characters[1] \in Blank
    /\ recon.characters[2] \notin Blank
    /\ recon.characters[3] \in Blank /\ recon.characters[4] \in Blank
    /\ recon.words # <<>>

\* the runs of a set in left-to-right order
InOrder(runs) ==
    CHOOSE f \in [1..Cardinality(runs) -> runs] :
        \A i, j \in 1..Cardinality(runs) : i < j => f[i][1] < f[j][1]

\* one entry a run: its text, the start time of its first character, the end
\* time of its last character, and the positions of the two
WordsOf(runs) ==
    [j \in 1..Cardinality(runs) |->
        LET run == InOrder(runs)[j] IN
        WordTiming(RunText(run), recon.start_times[run[1]], recon.end_times[run[2]],
                   run[1] - 1, run[2] - 1)]

EndsWithWord == recon.characters # <<>> /\ ~EndsWithWhitespace

\* C16 as stated: for a well-formed alignment whose last character is not
\* whitespace, the result is one entry for each maximal run of characters
\* other than space, newline and tab, in left-to-right order
C16_OneWordPerRun ==
    recon.returned /\ WellFormedAlignment /\ EndsWithWord =>
        ~recon.raised /\ recon.words = WordsOf(Runs)

\* C16 amended: for a well-formed alignment whose last character is not a
\* space, a newline or a tab, the result is one entry for each maximal run
\* of other characters that holds a character str.strip() keeps, in
\* left-to-right order, with the text, times and positions of the run; a run
\* of carriage returns alone gives no entry
C16_OneWordPerInkedRun ==
    recon.returned /\ WellFormedAlignment /\ EndsWithWord =>
        ~recon.raised /\ recon.words = WordsOf(WordRuns)

\* two words apart by a run of two whitespace characters
C16_Witness ==
    /\ Reconstructed /\ WellFormedAlignment /\ EndsWithWord
    /\ Len(recon.characters) = 4
    /\ recon.characters[2] \in Blank /\ recon.characters[3] \in Blank
    /\ Len(recon.words) = 2

AnyEmpty == recon.characters = <<>> \/ recon.start_times = <<>> \/ recon.end_times = <<>>

\* the call was answered, last, with an alignment that has no characters
AnsweredNoCharacters(p) ==
    /\ Done(p) /\ LastOk(p)
    /\ Get(Get(LastBody(p), "alignment", EmptyDict), "characters", <<>>) = <<>>

\* C17: the reconstructor returns the empty sequence whenever one of its
\* three arguments is empty, whatever the other two hold; and a synthesis
\* answered with an alignment without characters returns a result whose
\* word_timings are empty
C17_EmptyInputEmptyWords ==
    /\ recon.returned /\ AnyEmpty => ~recon.raised /\ recon.words = <<>>
    /\ AnsweredNoCharacters(1) => ret[1].kind = "return" /\ ret[1].value.word_timings = <<>>

\* no characters but end times, given to the reconstructor and answered to
\* a synthesis of the empty text
C17_Witness ==
    /\ Reconstructed /\ recon.characters = <<>> /\ recon.end_times # <<>>
    /\ AnsweredNoCharacters(1) /\ FreshSuccess(1)
    /\ req[1].text = <<>> /\ ret[1].value.word_timings = <<>>


\* ------------------------------------------------ properties of the calls
\* the audio file and its sibling timing file exist at the requested path
ArtifactAt(output_path) ==
    Exists(files, output_path) /\ Exists(files, WithSuffix(output_path, "timing.json"))

\* C14 as stated: after every successful return, fresh or from the cache,
\* the audio file and its sibling timing file exist at the requested
\* output_path, and the audio_path returned is the requested output_path
C14_ArtifactAtOutputPath ==
    \A p \in Procs :
        Done(p) /\ ret[p].kind = "return" =>
            ArtifactAt(req[p].output_path) /\ ret[p].value.audio_path = req[p].output_path

\* the cache holds a valid entry at the key of the request
EntryValid(p) ==
    CacheState(files, req[p].output_path, CacheKey(req[p].text, req[p].voice_id)) = "valid"

\* C19 as stated: a request for which a valid cache entry exists returns the
\* cached result, from_cache true and no POST, whether or not a credential
\* is resolvable.  (A call that ended without a POST left the files as it
\* found them.)
C19_CacheBeforeCredential ==
    Done(2) /\ obs[2].calls = 0 /\ EntryValid(2) => CacheHit(2)

\* failed attempts of the call, of every kind
FailedAttempts(p) ==
    obs[p].failures.transport + obs[p].failures.audio + obs[p].failures.timing

\* the POSTs of a call never exceed its retries; a fresh result follows
\* exactly one POST more than the attempts that failed
CallsBounded ==
    /\ obs[1].calls <= req[1].retries
    /\ Done(1) /\ ret[1].kind = "return" /\ obs[1].calls > 0 =>
          /\ ~ret[1].value.from_cache
          /\ obs[1].calls = FailedAttempts(1) + 1

\* a POST is made at the head of the loop only, as the next attempt after
\* the failed ones: none while an attempt runs and none after a success
CallsAtLoopHead ==
    obs'[1].calls # obs[1].calls =>
        /\ pc[1] = "loop"
        /\ obs[1].calls = FailedAttempts(1)
        /\ obs'[1].calls = obs[1].calls + 1

\* C18: when attempts 1..k-1 fail at transport level and attempt k succeeds,
\* the call returns a fresh result after exactly k POSTs and makes none
\* after; a call never makes more POSTs than its retries; and every call
\* ends, with a result or an error
C18_BoundedRetry ==
    /\ []CallsBounded
    /\ [][CallsAtLoopHead]_vars
    /\ <>Done(1)

\* a fresh result at the last attempt allowed, after transport failures
C18_Witness ==
    /\ FreshSuccess(1)
    /\ req[1].retries = MaxRetries
    /\ obs[1].calls = MaxRetries
    /\ obs[1].failures.transport = MaxRetries - 1

CacheFiles == {"cache_audio", "cache_timing"}

\* a call writes no cache file that the other call has written
SecondWriterSkips ==
    \A p, q \in Procs : \A which \in CacheFiles :
        p # q /\ SameTextVoiceDir(p, q) /\ obs[q].writes[which] > 0 =>
            obs'[p].writes[which] = obs[p].writes[which]

\* C20 as stated: when two duplicate calls run interleaved and both miss the
\* cache, once one call has written a cache file at the key the other call
\* does not write that cache file
C20_NoSecondCacheWriter == [][SecondWriterSkips]_vars

\* the cache copies a call writes from the response body it was answered with
AudioOf(response_body) == B64Decode(response_body.audio_base64)
TimingOf(response_body, text) ==
    LET alignment == Get(response_body, "alignment", EmptyDict) IN
    JsonDumps(TimingData(text,
                         ExtractWordTimings(Get(alignment, "characters", <<>>),
                                            Get(alignment, "character_start_times_seconds", <<>>),
                                            Get(alignment, "character_end_times_seconds", <<>>)).words,
                         alignment),
              TimingKeys)

\* the response a call was answered with last has an audio and an alignment
UsableAnswer(q) ==
    /\ LastOk(q)
    /\ "audio_base64" \in DOMAIN LastBody(q) /\ B64Valid(LastBody(q).audio_base64)
    /\ Get(LastBody(q), "alignment", EmptyDict) # JsonNull

\* the two cache files at the key of call p, when both are there and
\* complete, are the audio and the timing of one response
Paired(p) ==
    LET audio == CachedAudio(req[p].output_path, CacheKey(req[p].text, req[p].voice_id))
        timing == CachedTiming(req[p].output_path, CacheKey(req[p].text, req[p].voice_id))
    IN  Exists(files, audio) /\ Exists(files, timing) /\ JsonValid(files[timing]) =>
            \E q \in Procs :
                /\ pc[q] # "idle" /\ SameTextVoiceDir(p, q) /\ UsableAnswer(q)
                /\ files[audio] = AudioOf(LastBody(q))
                /\ files[timing] = TimingOf(LastBody(q), req[q].text)

\* C21 as stated: whenever the cached audio file and the cached timing file
\* of a key both exist and are complete, they were written from the same
\* provider response, also when duplicate calls with different responses
\* run interleaved
C21_CachePaired == \A p \in Procs : pc[p] # "idle" => Paired(p)

\* C22 as stated: a call that raises (no credential, every attempt failed at
\* transport level, or an attempt failed on the audio or on the alignment)
\* has created or modified no output audio, timing or cache file
C22_FailureWritesNothing ==
    Done(1) /\ ret[1].kind = "raise" => obs[1].writes = NoWrites

\* POSTs of the call answered with a success status
AnsweredCalls(p) == obs[p].calls - obs[p].failures.transport
\* attempts of the call that ran to their end
CompletedAttempts(p) == obs[p].calls - FailedAttempts(p)
ReadCache(p) == obs[p].calls = 0 /\ obs[p].lookup = "valid"
AtCachePath(p) ==
    ret[p].value.audio_path = CachedAudio(req[p].output_path, CacheKey(req[p].text, req[p].voice_id))

\* C23 as stated: a result has from_cache true exactly when the call made no
\* POST and read both cache files, and audio_path is then the cached audio;
\* it has from_cache false exactly when one POST of the call succeeded, and
\* audio_path is then the requested output_path
C23_OneAnsweredCall ==
    \A p \in Procs :
        Done(p) /\ ret[p].kind = "return" =>
            /\ ret[p].value.from_cache <=> ReadCache(p)
            /\ ret[p].value.from_cache => AtCachePath(p)
            /\ ~ret[p].value.from_cache <=> AnsweredCalls(p) = 1
            /\ ~ret[p].value.from_cache => ret[p].value.audio_path = req[p].output_path

\* C23 amended: a result has from_cache true exactly when the call made no
\* POST and read both cache files, and audio_path is then the cached audio;
\* it has from_cache false exactly when one attempt of the call, its last,
\* ran to its end, after POSTs that failed or were answered with a payload
\* the attempt failed on, and audio_path is then the requested output_path
C23_OneCompletedAttempt ==
    \A p \in Procs :
        Done(p) /\ ret[p].kind = "return" =>
            /\ ret[p].value.from_cache <=> ReadCache(p)
            /\ ret[p].value.from_cache => AtCachePath(p)
            /\ ~ret[p].value.from_cache <=> CompletedAttempts(p) = 1 /\ LastOk(p)
            /\ ~ret[p].value.from_cache => ret[p].value.audio_path = req[p].output_path

\* a fresh result after an answered POST whose alignment was null, and then
\* a result from the cache
C23_Witness ==
    /\ FreshSuccess(1) /\ obs[1].calls = 2 /\ obs[1].failures.timing = 1
    /\ CacheHit(2) /\ ReadCache(2) /\ AtCachePath(2)


====
